---- MODULE Spec2Model ----
(***************************************************************************)
(* The paper-trading resolvers of polymarket-simmer-bots:                  *)
(*   scripts/bybit_sr_resolve.py    (bar based: fill scan, stop/target     *)
(*                                   race, result log, state file)         *)
(*   scripts/btc15m_arb_resolve.py  (binary market: fill draw, paper pnl,  *)
(*                                   result log, state file)               *)
(* Prices are small integers standing for price levels; timestamps are     *)
(* bar indices (one unit = one interval).                                  *)
(***************************************************************************)
EXTENDS Integers, Sequences, FiniteSets, TLC

VARIABLES
    scanPc, scanIn, scanOut,     \* the scan specification: one loop iteration
    draws,                       \* the draw specification: the fill model alone
    pnl,                         \* the pnl specification: one call of paper_pnl
    kl,                          \* the window specification: one kline request
    script,                      \* which resolver the behaviour runs
    apiKey,                      \* whether SIMMER_API_KEY is set
    journal,                     \* the intent journal (JOURNAL)
    stateFile,                   \* the Idempotency Store on disk (STATE / STATE_PATH)
    results,                     \* the result log (OUT_JSONL)
    csvFile,                     \* the tabular export (OUT_CSV)
    market, now,                 \* Bar Source: the bar history and the bars published so far
    mkt,                         \* Simmer API: the state of each market
    pc, mem, rc,                 \* per invocation: position, local variables, exit code
    runs,                        \* invocations started so far
    hist                         \* history: what the last saved run resolved

scanVars == <<scanPc, scanIn, scanOut>>
drawVars == <<draws, pnl, kl>>
confVars == <<script, apiKey>>
fileVars == <<journal, stateFile, results, csvFile>>
envVars == <<market, now, mkt>>
procVars == <<pc, mem, rc, runs, hist>>
runVars == <<confVars, fileVars, envVars, procVars>>
vars == <<scanVars, drawVars, runVars>>

-----------------------------------------------------------------------------
(* Bounds and value sets                                                   *)

\* Longest bar list a single fetch returns in the scan specification.
MaxBars == 3

\* Price levels: below / at the lower threshold, the entry, at / above the
\* upper threshold.
Prices == 0 .. 4
Entry == 2
Sides == {"LONG", "SHORT"}

\* filled_idx = None (candles are indexed from 1 here, from 0 in the code).
NoFill == 0

\* One kline row r: r[0] = start time, r[2] = high, r[3] = low.  Open and
\* close are parsed by the code and never read.
Candle(t, h, l) == [ts |-> t, hi |-> h, lo |-> l]

HiLo == {b \in [hi : Prices, lo : Prices] : b.lo <= b.hi}

RECURSIVE SeqsUpTo(_, _)
SeqsUpTo(S, n) ==
    IF n = 0 THEN {<<>>}
    ELSE LET shorter == SeqsUpTo(S, n - 1)
         IN  shorter \cup {Append(s, x) : s \in {t \in shorter : Len(t) = n - 1}, x \in S}

\* All orders in which a source can return the rows of s.
Orders ==
    [n \in 0 .. MaxBars + 1 |->
        {f \in [1 .. n -> 1 .. n] : \A i, j \in 1 .. n : i # j => f[i] # f[j]}]

Perms(s) == {[i \in 1 .. Len(s) |-> s[f[i]]] : f \in Orders[Len(s)]}

IsAscending(s) == \A i \in 1 .. Len(s) - 1 : s[i].ts < s[i + 1].ts

IsDescending(s) == \A i \in 1 .. Len(s) - 1 : s[i].ts > s[i + 1].ts

OrderOf(s) ==
    IF IsAscending(s) THEN "ascending"
    ELSE IF IsDescending(s) THEN "descending" ELSE "mixed"

-----------------------------------------------------------------------------
(* fetch_klines: sorted(lst, key=lambda r: int(r[0]))                      *)

RECURSIVE InsertByTs(_, _)
InsertByTs(r, s) ==
    IF s = <<>> THEN <<r>>
    ELSE IF r.ts < Head(s).ts THEN <<r>> \o s
    ELSE <<Head(s)>> \o InsertByTs(r, Tail(s))

RECURSIVE SortedByTs(_)
SortedByTs(lst) ==
    IF lst = <<>> THEN <<>>
    ELSE InsertByTs(lst[Len(lst)], SortedByTs(SubSeq(lst, 1, Len(lst) - 1)))

\* A buggy fetch that trusts the source's order.
fetch_klines_unsorted(lst) == lst

fetch_klines(lst) == SortedByTs(lst)

-----------------------------------------------------------------------------
(* main, lines 149-176: the fill scan and the stop/target race             *)

RECURSIVE FillScan(_, _, _)
FillScan(candles, entry, i) ==
    IF i > Len(candles) THEN NoFill
    ELSE IF candles[i].lo <= entry /\ entry <= candles[i].hi THEN i
    ELSE FillScan(candles, entry, i + 1)

FillIdx(candles, entry) == FillScan(candles, entry, 1)

hit_sl(side, c, sl) == IF side = "LONG" THEN c.lo <= sl ELSE c.hi >= sl

hit_tp(side, c, tp) == IF side = "LONG" THEN c.hi >= tp ELSE c.lo <= tp

RECURSIVE RaceScan(_, _, _, _, _)
RaceScan(candles, side, sl, tp, j) ==
    IF j > Len(candles) THEN "unfilled"
    ELSE IF hit_sl(side, candles[j], sl) /\ hit_tp(side, candles[j], tp) THEN "loss"
    ELSE IF hit_sl(side, candles[j], sl) THEN "loss"
    ELSE IF hit_tp(side, candles[j], tp) THEN "win"
    ELSE RaceScan(candles, side, sl, tp, j + 1)

\* A buggy race that tests the target before the stop.
RaceTargetFirst(candles, side, sl, tp, filled_idx) ==
    LET hit == {j \in filled_idx .. Len(candles) :
                    hit_sl(side, candles[j], sl) \/ hit_tp(side, candles[j], tp)}
        j0 == CHOOSE j \in hit : \A k \in hit : j <= k
    IN  IF filled_idx = NoFill \/ hit = {} THEN "unfilled"
        ELSE IF hit_tp(side, candles[j0], tp) THEN "win" ELSE "loss"

\* A buggy race that starts at the bar after the fill bar.
RaceAfterFillBar(candles, side, sl, tp, filled_idx) ==
    IF filled_idx = NoFill THEN "unfilled"
    ELSE RaceScan(candles, side, sl, tp, filled_idx + 1)

Race(candles, side, sl, tp, filled_idx) ==
    IF filled_idx = NoFill THEN "unfilled"
    ELSE RaceScan(candles, side, sl, tp, filled_idx)

\* The local variables of one loop iteration after line 176.
Evaluate(lst, side, entry, sl, tp) ==
    LET candles == fetch_klines(lst)
        filled_idx == FillIdx(candles, entry)
    IN  [candles |-> candles, filled_idx |-> filled_idx,
         outcome |-> Race(candles, side, sl, tp, filled_idx)]

-----------------------------------------------------------------------------
(* The resolvers' runs: value sets                                         *)

\* Invocation slots.  The resolvers are started one after the other (cron),
\* so the second slot stays off in RunInit.
Procs == {1, 2}

\* Longest journal, longest bar history, most invocations of a behaviour.
MaxJournal == 2
MaxHist == 2
MaxRuns == 2

\* BYBIT_RESOLVE_LOOKAHEAD_CANDLES (line 97) as configured here, and its
\* default.
Lookahead == 1
DefaultLookahead == 24

\* What a signal names as its bar feed: symbol and interval.  DefaultFeed is
\* what lines 116-117 fall back to.
DefaultFeed == [symbol |-> "BTCUSDT", interval |-> "5"]

AltFeed == [symbol |-> "ETHUSDT", interval |-> "15"]

Feeds == {DefaultFeed, AltFeed}

\* signals[-200:] and limit=min(200, lookahead + 50).
SignalWindow == 200
KlineLimitCap == 200
KlineLimitPad == 50

\* Bars of the history: the entry alone, the entry and one threshold, or
\* the upper threshold alone.
RunBars == {b \in HiLo : b.lo >= 1 /\ b.hi <= 3 /\ b.hi - b.lo <= 1 /\ b.hi >= Entry}

\* The bar history of the other feed: every bar spans the entry and the
\* lower threshold.
AltMarket == [t \in 1 .. MaxHist |-> CHOOSE b \in RunBars : b.hi = 2 /\ b.lo = 1]

\* A value float() does not convert: None (a missing field) or a string
\* that is not a number.
NonNumeric == -1

\* A journal line of the signal script.  json tells whether the line parses
\* as JSON; the other fields are those of the parsed object.
SignalLine(type, ts, side, entry, sl, tp, candle_ts) ==
    [json |-> TRUE, type |-> type, ts |-> ts, side |-> side, entry |-> entry,
     sl |-> sl, tp |-> tp, candle_ts |-> candle_ts,
     symbol |-> DefaultFeed.symbol, interval |-> DefaultFeed.interval]

\* Journal rows of type signal.  candle_ts = 0 stands for a missing or zero
\* candle_ts (int(s.get("candle_ts") or 0)).
Signals ==
    {SignalLine("signal", 1, "LONG", Entry, 1, 3, 1),
     SignalLine("signal", 2, "SHORT", Entry, 3, 1, 0)}

\* Signals journaled for the other feed.
AltSignals ==
    {[SignalLine("signal", 3, "LONG", Entry, 1, 3, 1)
         EXCEPT !.symbol = AltFeed.symbol, !.interval = AltFeed.interval],
     [SignalLine("signal", 4, "SHORT", Entry, 3, 1, 0)
         EXCEPT !.symbol = AltFeed.symbol, !.interval = AltFeed.interval]}

\* A line cut short or otherwise not JSON, a row of another type, and a
\* signal whose entry float() rejects.
BadJsonSignal == [SignalLine("", 0, "", 0, 0, 0, 0) EXCEPT !.json = FALSE]

OtherTypeLine == SignalLine("status", 0, "", 0, 0, 0, 0)

BadValueSignal == SignalLine("signal", 3, "LONG", NonNumeric, 1, 3, 1)

SignalLines == Signals \cup {BadJsonSignal, OtherTypeLine, BadValueSignal}

\* Journal rows of action PAPER_INTENT.  price in tenths, edge and conf in
\* units of 0.0001.
IntentLine(action, market_id, ts, side, price, shares, edge, conf) ==
    [json |-> TRUE, action |-> action, market_id |-> market_id, ts |-> ts, side |-> side,
     price |-> price, shares |-> shares, edge |-> edge, conf |-> conf]

Intents ==
    {IntentLine("PAPER_INTENT", "m1", 1, "YES", 4, 10, 500, 7000),
     IntentLine("PAPER_INTENT", "m1", 2, "NO", 6, 5, 0, 0)}

\* A line that is not JSON, a row of another action, and an intent whose
\* price float() rejects.
BadJsonIntent == [IntentLine("", "", 0, "", 0, 0, 0, 0) EXCEPT !.json = FALSE]

OtherActionLine == IntentLine("SCAN", "m1", 0, "", 0, 0, 0, 0)

BadValueIntent == IntentLine("PAPER_INTENT", "m1", 3, "YES", NonNumeric, 10, 500, 7000)

IntentLines == Intents \cup {BadJsonIntent, OtherActionLine, BadValueIntent}

\* The actions btc15m_arb_resolve.main accepts (line 134).
IntentActions == {"PAPER_INTENT", "TRADE_INTENT"}

MarketIds == {"m1"}

\* What /api/sdk/markets/{id} answers: the status, and the outcome_up that
\* lines 158-177 derive from outcome and outcome_name ("none" for None).
MarketStates ==
    {[status |-> "active", outcome_up |-> "none", fee_rate_bps |-> 200],
     [status |-> "resolved", outcome_up |-> "none", fee_rate_bps |-> 200],
     [status |-> "resolved", outcome_up |-> "up", fee_rate_bps |-> 200],
     [status |-> "resolved", outcome_up |-> "down", fee_rate_bps |-> 200]}

\* PYTHONHASHSEED of an invocation: str hashes are salted per process.
HashSeeds == {1, 2}

\* key = f"{ts}:{side}:{entry}:{sl}:{tp}" and key = f"{market_id}:{ts}", as
\* tuples of the formatted values.
BybitKey(s) == <<s.ts, s.side, s.entry, s.sl, s.tp>>

BtcKey(r) == <<r.market_id, r.ts>>

\* The key a row of the result log belongs to.
RowKey(row) ==
    IF script = "bybit" THEN <<row.signal_ts, row.side, row.entry, row.sl, row.tp>>
    ELSE <<row.market_id, row.intent_ts>>

-----------------------------------------------------------------------------
(* Files                                                                   *)

NoFile == [status |-> "missing", resolved |-> {}]

\* A state file cut short: open(STATE, "w") has truncated it and json.dump
\* has not finished.
Truncated == [status |-> "corrupt", resolved |-> {}]

\* A buggy save that writes an empty store.
StoreFileEmpty(resolved) == [status |-> "ok", resolved |-> {}]

StoreFile(resolved) == [status |-> "ok", resolved |-> resolved]

\* A state file that is valid JSON but not an object (for example []):
\* json.load succeeds and st.get raises AttributeError.
WrongShape == [status |-> "shape", resolved |-> {}]

LoadRaises(file) == file.status = "shape"

\* A buggy load that always starts from an empty store.
load_state_empty(file) == {}

\* load_state and st.get("resolved", {}): the keys of the loaded store, the
\* empty store when the file is missing or does not parse.
load_state(file) == IF file.status = "ok" THEN file.resolved ELSE {}

\* A result log that refuses a second record for a key.
AppendJsonlOnce(row) ==
    results' = IF \E i \in 1 .. Len(results) : RowKey(results[i]) = RowKey(row)
               THEN results ELSE Append(results, row)

\* A buggy writer that opens the log with mode "w".
RewriteJsonl(row) == results' = <<row>>

\* The first write of append_out / append_result: one line of the JSONL.
AppendJsonl(row) == results' = Append(results, row)

\* The keys of the rows, in the order the dict literals insert them.
BybitColumns ==
    <<"resolved_ts", "signal_ts", "symbol", "interval", "side", "entry", "sl", "tp",
      "rr", "size_btc", "risk_usd", "outcome", "win">>

\* Lines 205-225: the row of an intent that did not fill.
UnfilledColumns ==
    <<"resolved_ts", "intent_ts", "market_id", "question", "side", "entry_price",
      "shares", "status", "outcome_up", "outcome_name", "fee_rate_bps", "filled",
      "p_fill", "u", "notional", "fee", "pnl_gross", "pnl_net", "win">>

\* Lines 100-106: the dict paper_pnl returns.
PnlColumns == <<"notional", "fee", "pnl_gross", "pnl_net", "win">>

\* A filled row built with the pnl in front.
FilledColumnsPnlFirst ==
    PnlColumns \o
    <<"resolved_ts", "intent_ts", "market_id", "question", "side", "entry_price",
      "shares", "status", "outcome_up", "outcome_name", "fee_rate_bps", "filled",
      "p_fill", "u">>

\* Lines 233-249: the row of a filled intent, ending with **calc.
FilledColumns ==
    <<"resolved_ts", "intent_ts", "market_id", "question", "side", "entry_price",
      "shares", "status", "outcome_up", "outcome_name", "fee_rate_bps", "filled",
      "p_fill", "u">> \o PnlColumns

\* list(row.keys())
Columns(row) ==
    IF script = "bybit" THEN BybitColumns
    ELSE IF row.filled THEN FilledColumns ELSE UnfilledColumns

\* No export: headers counts the header lines, header is the header line,
\* fields the fieldnames each data row was written with.
NoCsv == [exists |-> FALSE, headers |-> 0, header |-> <<>>, rows |-> <<>>, fields |-> <<>>]

\* The second write: the header when the CSV does not exist, then the row,
\* both with fieldnames = list(row.keys()).
AppendCsv(row) ==
    csvFile' = [exists |-> TRUE,
                headers |-> IF csvFile.exists THEN csvFile.headers ELSE csvFile.headers + 1,
                header |-> IF csvFile.exists THEN csvFile.header ELSE Columns(row),
                rows |-> Append(csvFile.rows, row),
                fields |-> Append(csvFile.fields, Columns(row))]

\* Both writes of append_out / append_result.
AppendRow(row) ==
    /\ AppendJsonl(row)
    /\ AppendCsv(row)

append_out(row) == AppendRow(row)

append_result(row) == AppendRow(row)

\* A loop over every signal of the journal.
LastSignalsAll(signals) == signals

\* signals[-200:]
LastSignals(signals) ==
    IF Len(signals) <= SignalWindow THEN signals
    ELSE SubSeq(signals, Len(signals) - SignalWindow + 1, Len(signals))

Min(a, b) == IF a <= b THEN a ELSE b

Max(a, b) == IF a >= b THEN a ELSE b

\* The start times of the Bar Source's answer at clock t: the published
\* bars (the first one starts at 1) that start within [start_ms, end_ms],
\* newest first, at most limit of them.
BarTimes(t, start_ms, end_ms, limit) ==
    LET first == Max(1, start_ms)
        last == Min(t, end_ms)
        n == Min(Max(0, last - first + 1), limit)
    IN  [i \in 1 .. n |-> last - i + 1]

\* The Bar Source's answer for a feed: market holds one bar history per feed.
BarSource(feed, t, start_ms, end_ms, limit) ==
    LET times == BarTimes(t, start_ms, end_ms, limit)
    IN  [i \in 1 .. Len(times) |->
            Candle(times[i], market[feed][times[i]].hi, market[feed][times[i]].lo)]

\* Lines 134-137: sig_ms, the candle of the signal, or lookahead intervals
\* before the clock when candle_ts is missing.
WindowStart(candle_ts, t, lookahead) == IF candle_ts <= 0 THEN t - lookahead ELSE candle_ts

\* Line 140: end_ms = sig_ms + int_ms * (lookahead + 2).
WindowEnd(sig_ms, lookahead) == sig_ms + (lookahead + 2)

\* Line 142: limit=min(200, lookahead + 50).
KlineLimit(lookahead) == Min(KlineLimitCap, lookahead + KlineLimitPad)

\* Lines 134-142 at clock t: the window of signal s and the rows fetched.
Klines(feed, s, t) ==
    LET sig_ms == WindowStart(s.candle_ts, t, Lookahead)
    IN  BarSource(feed, t, sig_ms, WindowEnd(sig_ms, Lookahead), KlineLimit(Lookahead))

\* Lines 142-192 at clock t: the locals and the row of signal s.
BybitEval(feed, s, t) == Evaluate(Klines(feed, s, t), s.side, s.entry, s.sl, s.tp)

\* A run that takes the feed from the first signal of the journal.
RunFeedFirst(signals) == [symbol |-> signals[1].symbol, interval |-> signals[1].interval]

\* Lines 116-117: symbol and interval of signals[-1].
RunFeed(signals) ==
    [symbol |-> signals[Len(signals)].symbol, interval |-> signals[Len(signals)].interval]

BybitRow(feed, s, outcome) ==
    [signal_ts |-> s.ts, symbol |-> feed.symbol, interval |-> feed.interval,
     side |-> s.side, entry |-> s.entry, sl |-> s.sl, tp |-> s.tp,
     outcome |-> outcome, win |-> IF outcome = "win" THEN 1 ELSE 0]

-----------------------------------------------------------------------------
(* btc15m_arb_resolve: the fill model and paper_pnl.  Probabilities are in  *)
(* units of 0.00001, money in units of 0.00001, u in units of 0.0001.       *)

Clamp(lo, x, hi) == Max(lo, Min(hi, x))

\* A fill probability without the clamps.
PFillUnclamped(edge, conf) == 5000 + 55 * (edge - 200) + 11 * (conf - 6000)

\* Lines 194-197.  p_edge = clamp01((edge - 0.02) / 0.06) and
\* p_conf = clamp01((conf - 0.60) / 0.20) enter with weights 0.55 * 0.6 and
\* 0.55 * 0.4: 55 and 11 units per 0.0001 of edge and conf.
PFill(edge, conf) ==
    LET p_edge == Clamp(0, edge - 200, 600)
        p_conf == Clamp(0, conf - 6000, 2000)
    IN  Clamp(2000, 5000 + 55 * p_edge + 11 * p_conf, 60000)

Abs(x) == IF x < 0 THEN -x ELSE x

\* hash(key) of a str under the invocation's seed (a stand-in for the
\* salted SipHash: a function of the seed and the key).
PyHash(seed, key) == IF seed = 1 THEN 19200 * key[2] - 18200 ELSE 4000 * key[2] - 9000

\* Lines 200-201: h = abs(hash(key)) % 10_000, u = h / 10_000.0.
Draw(seed, key) == Abs(PyHash(seed, key)) % 10000

\* Lines 190-202: the fill model of one intent in an invocation.
FillModel(seed, key, edge, conf) ==
    [key |-> key, edge |-> edge, conf |-> conf,
     p_fill |-> PFill(edge, conf), u |-> Draw(seed, key),
     filled |-> 10 * Draw(seed, key) < PFill(edge, conf)]

\* A buggy pnl that pays every side when the market goes up.
paper_pnl_yes_only(side, price, shares, outcome_up, fee_rate_bps) ==
    [notional |-> shares * price * 10000, fee |-> shares * price * fee_rate_bps,
     pnl_gross |-> IF outcome_up THEN shares * (10 - price) * 10000
                   ELSE -(shares * price * 10000),
     pnl_net |-> (IF outcome_up THEN shares * (10 - price) * 10000
                  ELSE -(shares * price * 10000)) - shares * price * fee_rate_bps,
     win |-> IF outcome_up THEN 1 ELSE 0]

\* paper_pnl: price in tenths, the results in units of 0.00001.
paper_pnl(side, price, shares, outcome_up, fee_rate_bps) ==
    LET notional == shares * price * 10000
        fee == shares * price * fee_rate_bps
        win == IF side = "YES" THEN outcome_up ELSE ~outcome_up
        gross == IF win THEN shares * (10 - price) * 10000 ELSE -(shares * price * 10000)
    IN  [notional |-> notional, fee |-> fee, pnl_gross |-> gross,
         pnl_net |-> gross - fee, win |-> IF win THEN 1 ELSE 0]

\* A buggy row that carries the pnl of an intent that did not fill.
BtcRowPnlAlways(r, mk, fm) ==
    LET calc == paper_pnl(r.side, r.price, r.shares, mk.outcome_up = "up", mk.fee_rate_bps)
    IN  [intent_ts |-> r.ts, market_id |-> r.market_id, side |-> r.side,
         entry_price |-> r.price, shares |-> r.shares, status |-> mk.status,
         outcome_up |-> mk.outcome_up, fee_rate_bps |-> mk.fee_rate_bps,
         filled |-> fm.filled, p_fill |-> fm.p_fill, u |-> fm.u,
         notional |-> calc.notional, fee |-> calc.fee, pnl_gross |-> calc.pnl_gross,
         pnl_net |-> calc.pnl_net, win |-> calc.win]

\* Lines 204-249: the row of intent r on market answer mk.
BtcRow(r, mk, fm) ==
    LET calc == IF fm.filled
                THEN paper_pnl(r.side, r.price, r.shares, mk.outcome_up = "up", mk.fee_rate_bps)
                ELSE [notional |-> 0, fee |-> 0, pnl_gross |-> 0, pnl_net |-> 0, win |-> 0]
    IN  [intent_ts |-> r.ts, market_id |-> r.market_id, side |-> r.side,
         entry_price |-> r.price, shares |-> r.shares, status |-> mk.status,
         outcome_up |-> mk.outcome_up, fee_rate_bps |-> mk.fee_rate_bps,
         filled |-> fm.filled, p_fill |-> fm.p_fill, u |-> fm.u,
         notional |-> calc.notional, fee |-> calc.fee, pnl_gross |-> calc.pnl_gross,
         pnl_net |-> calc.pnl_net, win |-> calc.win]

-----------------------------------------------------------------------------
(* The resolvers' runs: state                                              *)

NoLast == [valid |-> FALSE, s |-> <<>>, ev |-> <<>>, wrote |-> FALSE]

\* The local variables of an invocation.  last holds the locals of the loop
\* iteration that last evaluated an intent; exc is the exception that ended
\* the invocation; newKeys, prevKeys and startKeys are history: the keys this
\* run recorded, the keys the last saved run recorded (when the state file
\* is still the one it wrote), and the keys of the state file when this run
\* started.
Fresh ==
    [resolved |-> {}, work |-> <<>>, i |-> 0, new |-> 0, seed |-> 0,
     last |-> NoLast, exc |-> "none", newKeys |-> {}, prevKeys |-> {}, startKeys |-> {},
     startRows |-> {}, feed |-> DefaultFeed]

\* What is left of an invocation that has ended: the keys its state file
\* held when it started.
Ended(m) == [Fresh EXCEPT !.startKeys = m.startKeys]

\* What is left of an invocation that an uncaught exception has ended.
Raised(m, e) == [Ended(m) EXCEPT !.exc = e]

FileKeys(file) == IF file.status = "ok" THEN file.resolved ELSE {}

Started(resolved, work, seed) ==
    [Fresh EXCEPT !.resolved = resolved, !.work = work, !.i = 1, !.seed = seed,
                  !.prevKeys = IF hist.intact THEN hist.keys ELSE {},
                  !.startKeys = FileKeys(stateFile),
                  !.startRows = {RowKey(results[i]) : i \in 1 .. Len(results)}]

Idle == \A p \in Procs : pc[p] \in {"idle", "off"}

RunInit ==
    /\ script \in {"bybit", "btc"}
    /\ apiKey \in IF script = "btc" THEN BOOLEAN ELSE {FALSE}
    /\ journal \in {[exists |-> e, lines |-> <<>>] : e \in BOOLEAN}
    /\ stateFile = NoFile
    /\ results = <<>>
    /\ csvFile = NoCsv
    /\ market \in IF script = "bybit"
                  THEN {[f \in Feeds |-> IF f = DefaultFeed THEN h ELSE AltMarket] :
                           h \in [1 .. MaxHist -> RunBars]}
                  ELSE {<<>>}
    /\ now = 1
    /\ mkt = [m \in MarketIds |-> CHOOSE ms \in MarketStates : ms.status = "active"]
    /\ pc = [p \in Procs |-> IF p = 1 THEN "idle" ELSE "off"]
    /\ mem = [p \in Procs |-> Fresh]
    /\ rc = [p \in Procs |-> "none"]
    /\ runs = 0
    /\ hist = [keys |-> {}, intact |-> FALSE]

\* The run variables of a behaviour that runs no resolver.
RunOff ==
    /\ script = "none"
    /\ apiKey = FALSE
    /\ journal = [exists |-> FALSE, lines |-> <<>>]
    /\ stateFile = NoFile
    /\ results = <<>>
    /\ csvFile = NoCsv
    /\ market = <<>>
    /\ now = 0
    /\ mkt = [m \in MarketIds |-> CHOOSE ms \in MarketStates : ms.status = "active"]
    /\ pc = [p \in Procs |-> "off"]
    /\ mem = [p \in Procs |-> Fresh]
    /\ rc = [p \in Procs |-> "none"]
    /\ runs = 0
    /\ hist = [keys |-> {}, intact |-> FALSE]

-----------------------------------------------------------------------------
(* The environment                                                         *)

\* The signal script or the arb bot appends an intent between two runs; a
\* signal names a candle that the exchange has published.
AppendJournal ==
    /\ Idle
    /\ Len(journal.lines) < MaxJournal
    /\ \E line \in IF script = "bybit" THEN {s \in Signals : s.candle_ts <= now} ELSE Intents :
          journal' = [exists |-> TRUE, lines |-> Append(journal.lines, line)]
    /\ UNCHANGED <<scanVars, drawVars, confVars, stateFile, results, csvFile, envVars, procVars>>

\* The exchange publishes the next bar.
Tick ==
    /\ script = "bybit"
    /\ now < MaxHist
    /\ now' = now + 1
    /\ UNCHANGED <<scanVars, drawVars, confVars, fileVars, market, mkt, procVars>>

\* A market closes, or a closed market's outcome is published.
Settle(m) ==
    /\ script = "btc"
    /\ mkt[m].outcome_up = "none"
    /\ \E ms \in MarketStates :
          /\ ms.status = "resolved"
          /\ ms # mkt[m]
          /\ mkt' = [mkt EXCEPT ![m] = ms]
    /\ UNCHANGED <<scanVars, drawVars, confVars, fileVars, market, now, procVars>>

-----------------------------------------------------------------------------
(* bybit_sr_resolve.main                                                   *)

IsSignal(r) == r.type = "signal"

\* A buggy start that writes an empty store before it looks for the journal.
BybitStartWritesState(p) ==
    /\ script = "bybit"
    /\ pc[p] = "idle"
    /\ runs < MaxRuns
    /\ runs' = runs + 1
    /\ pc' = pc
    /\ rc' = [rc EXCEPT ![p] = "0"]
    /\ mem' = [mem EXCEPT ![p] = Ended(Started({}, <<>>, 0))]
    /\ stateFile' = StoreFile({})
    /\ UNCHANGED <<scanVars, drawVars, confVars, journal, results, csvFile, envVars, hist>>

\* Lines 94-120.  A missing journal returns 0; st.get raises on a state file
\* of the wrong shape; json.loads raises on a line that is not JSON; a
\* journal without signals returns 0; otherwise the loop starts on the last
\* signals.
BybitStart(p) ==
    /\ script = "bybit"
    /\ pc[p] = "idle"
    /\ runs < MaxRuns
    /\ runs' = runs + 1
    /\ pc' = [pc EXCEPT ![p] =
                 IF /\ journal.exists
                    /\ ~LoadRaises(stateFile)
                    /\ \A k \in 1 .. Len(journal.lines) : journal.lines[k].json
                    /\ SelectSeq(journal.lines, IsSignal) # <<>>
                 THEN "loop" ELSE "idle"]
    /\ IF ~journal.exists
       THEN /\ rc' = [rc EXCEPT ![p] = "0"]
            /\ mem' = [mem EXCEPT ![p] = Ended(Started({}, <<>>, 0))]
       ELSE IF LoadRaises(stateFile)
       THEN /\ rc' = [rc EXCEPT ![p] = "1"]
            /\ mem' = [mem EXCEPT ![p] = Raised(Started({}, <<>>, 0), "AttributeError")]
       ELSE IF \E k \in 1 .. Len(journal.lines) : ~journal.lines[k].json
       THEN /\ rc' = [rc EXCEPT ![p] = "1"]
            /\ mem' = [mem EXCEPT ![p] = Raised(Started({}, <<>>, 0), "JSONDecodeError")]
       ELSE IF SelectSeq(journal.lines, IsSignal) = <<>>
       THEN /\ rc' = [rc EXCEPT ![p] = "0"]
            /\ mem' = [mem EXCEPT ![p] = Ended(Started({}, <<>>, 0))]
       ELSE /\ rc' = [rc EXCEPT ![p] = "none"]
            /\ mem' = [mem EXCEPT ![p] =
                          [Started(load_state(stateFile),
                                   LastSignals(SelectSeq(journal.lines, IsSignal)), 0)
                              EXCEPT !.feed = RunFeed(SelectSeq(journal.lines, IsSignal))]]
    /\ UNCHANGED <<scanVars, drawVars, confVars, fileVars, envVars, hist>>

\* Lines 129-131: float() of entry, sl and tp.
FloatsRaise(s) == NonNumeric \in {s.entry, s.sl, s.tp}

\* The loop is at a signal whose key is not in the store.
BybitDue(p) ==
    /\ script = "bybit"
    /\ pc[p] = "loop"
    /\ mem[p].i <= Len(mem[p].work)
    /\ BybitKey(mem[p].work[mem[p].i]) \notin mem[p].resolved

\* Lines 123-196, one signal: skipped when its key is in the store; ValueError
\* or TypeError when float() rejects a field; else evaluated on the bars
\* fetched now, written and marked.
BybitIter(p) ==
    /\ script = "bybit"
    /\ pc[p] = "loop"
    /\ mem[p].i <= Len(mem[p].work)
    /\ LET s == mem[p].work[mem[p].i]
           key == BybitKey(s)
           ev == BybitEval(mem[p].feed, s, now)
       IN  IF key \in mem[p].resolved
           THEN /\ mem' = [mem EXCEPT ![p].i = @ + 1]
                /\ UNCHANGED <<results, csvFile, pc, rc>>
           ELSE IF FloatsRaise(s)
           THEN /\ mem' = [mem EXCEPT ![p] = Raised(@, "ValueError")]
                /\ pc' = [pc EXCEPT ![p] = "idle"]
                /\ rc' = [rc EXCEPT ![p] = "1"]
                /\ UNCHANGED <<results, csvFile>>
           ELSE /\ append_out(BybitRow(mem[p].feed, s, ev.outcome))
                /\ mem' = [mem EXCEPT ![p] =
                              [@ EXCEPT !.resolved = @ \cup {key}, !.new = @ + 1,
                                        !.i = @ + 1, !.newKeys = @ \cup {key},
                                        !.last = [valid |-> TRUE, s |-> s, ev |-> ev,
                                                  wrote |-> TRUE]]]
                /\ UNCHANGED <<pc, rc>>
    /\ UNCHANGED <<scanVars, drawVars, confVars, journal, stateFile, envVars, runs, hist>>

\* Line 142: fetch_klines raises (timeout, HTTP error) and nothing catches
\* it; the invocation ends with a traceback.
BybitFetchRaises(p) ==
    /\ BybitDue(p)
    /\ ~FloatsRaise(mem[p].work[mem[p].i])
    /\ pc' = [pc EXCEPT ![p] = "idle"]
    /\ rc' = [rc EXCEPT ![p] = "1"]
    /\ mem' = [mem EXCEPT ![p] = Raised(@, "URLError")]
    /\ UNCHANGED <<scanVars, drawVars, confVars, fileVars, envVars, runs, hist>>

-----------------------------------------------------------------------------
(* btc15m_arb_resolve.main                                                 *)

\* Lines 111-124: without SIMMER_API_KEY return 2; state.get raises on a
\* state file of the wrong shape; a missing journal returns 0.
BtcStart(p) ==
    /\ script = "btc"
    /\ pc[p] = "idle"
    /\ runs < MaxRuns
    /\ runs' = runs + 1
    /\ pc' = [pc EXCEPT ![p] =
                 IF apiKey /\ ~LoadRaises(stateFile) /\ journal.exists THEN "loop" ELSE "idle"]
    /\ \E seed \in HashSeeds :
          IF ~apiKey
          THEN /\ rc' = [rc EXCEPT ![p] = "2"]
               /\ mem' = [mem EXCEPT ![p] = Ended(Started({}, <<>>, 0))]
          ELSE IF LoadRaises(stateFile)
          THEN /\ rc' = [rc EXCEPT ![p] = "1"]
               /\ mem' = [mem EXCEPT ![p] = Raised(Started({}, <<>>, 0), "AttributeError")]
          ELSE IF ~journal.exists
          THEN /\ rc' = [rc EXCEPT ![p] = "0"]
               /\ mem' = [mem EXCEPT ![p] = Ended(Started({}, <<>>, 0))]
          ELSE /\ rc' = [rc EXCEPT ![p] = "none"]
               /\ mem' = [mem EXCEPT ![p] = Started(load_state(stateFile), <<>>, seed)]
    /\ UNCHANGED <<scanVars, drawVars, confVars, fileVars, envVars, hist>>

Settled(mk) == mk.status \in {"resolved", "closed", "settled"}

\* Lines 129-144: the line is JSON, its action is an intent, it names a
\* market and its key is not in the store.
BtcDue(p) ==
    /\ script = "btc"
    /\ pc[p] = "loop"
    /\ mem[p].i <= Len(journal.lines)
    /\ LET r == journal.lines[mem[p].i]
       IN  /\ r.json
           /\ r.action \in IntentActions
           /\ r.market_id # ""
           /\ BtcKey(r) \notin mem[p].resolved

\* Lines 153-181 on a fetched market: settled, with an outcome.
Resolvable(mk) == Settled(mk) /\ mk.outcome_up # "none"

\* Lines 125-253, one journal line whose market fetch succeeds: skipped when
\* it is not a due intent, the market is not settled or no outcome can be
\* derived; ValueError when float() rejects price or shares; else drawn,
\* written and marked.
BtcIter(p) ==
    /\ script = "btc"
    /\ pc[p] = "loop"
    /\ mem[p].i <= Len(journal.lines)
    /\ LET r == journal.lines[mem[p].i]
           key == BtcKey(r)
           mk == mkt[r.market_id]
           fm == FillModel(mem[p].seed, key, r.edge, r.conf)
       IN  IF ~BtcDue(p) \/ ~Resolvable(mk)
           THEN /\ mem' = [mem EXCEPT ![p].i = @ + 1]
                /\ UNCHANGED <<results, csvFile, pc, rc>>
           ELSE IF NonNumeric \in {r.price, r.shares}
           THEN /\ mem' = [mem EXCEPT ![p] = Raised(@, "ValueError")]
                /\ pc' = [pc EXCEPT ![p] = "idle"]
                /\ rc' = [rc EXCEPT ![p] = "1"]
                /\ UNCHANGED <<results, csvFile>>
           ELSE /\ append_result(BtcRow(r, mk, fm))
                /\ mem' = [mem EXCEPT ![p] =
                              [@ EXCEPT !.resolved = @ \cup {key}, !.new = @ + 1,
                                        !.i = @ + 1, !.newKeys = @ \cup {key},
                                        !.last = [valid |-> TRUE, s |-> r, ev |-> fm,
                                                  wrote |-> TRUE]]]
                /\ UNCHANGED <<pc, rc>>
    /\ UNCHANGED <<scanVars, drawVars, confVars, journal, stateFile, envVars, runs, hist>>

\* A buggy handler that marks the intent whose fetch failed.
BtcFetchFailsMarks(p) ==
    /\ BtcDue(p)
    /\ mem' = [mem EXCEPT ![p] =
                  [@ EXCEPT !.i = @ + 1,
                            !.resolved = @ \cup {BtcKey(journal.lines[mem[p].i])}]]
    /\ UNCHANGED <<scanVars, drawVars, confVars, fileVars, envVars, pc, rc, runs, hist>>

\* Lines 147-151: api_request raises and the line is skipped.
BtcFetchFails(p) ==
    /\ BtcDue(p)
    /\ mem' = [mem EXCEPT ![p].i = @ + 1]
    /\ UNCHANGED <<scanVars, drawVars, confVars, fileVars, envVars, pc, rc, runs, hist>>

-----------------------------------------------------------------------------
(* Both resolvers: save_state, and the end of an invocation                *)

LoopDone(p) ==
    mem[p].i > (IF script = "bybit" THEN Len(mem[p].work) ELSE Len(journal.lines))

\* save_state, open(STATE, "w"): the file is truncated.
SaveOpen(p) ==
    /\ pc[p] = "loop"
    /\ LoopDone(p)
    /\ stateFile' = Truncated
    /\ pc' = [pc EXCEPT ![p] = "dump"]
    /\ hist' = [hist EXCEPT !.intact = FALSE]
    /\ UNCHANGED <<scanVars, drawVars, confVars, journal, results, csvFile, envVars, mem, rc, runs>>

\* save_state, json.dump and close: the whole store is written; return 0.
SaveDump(p) ==
    /\ pc[p] = "dump"
    /\ stateFile' = StoreFile(mem[p].resolved)
    /\ pc' = [pc EXCEPT ![p] = "idle"]
    /\ rc' = [rc EXCEPT ![p] = "0"]
    /\ hist' = [keys |-> mem[p].newKeys, intact |-> TRUE]
    /\ mem' = [mem EXCEPT ![p] = Ended(@)]
    /\ UNCHANGED <<scanVars, drawVars, confVars, journal, results, csvFile, envVars, runs>>

\* The process is killed while it runs.
Kill(p) ==
    /\ pc[p] \in {"loop", "dump"}
    /\ pc' = [pc EXCEPT ![p] = "idle"]
    /\ rc' = [rc EXCEPT ![p] = "killed"]
    /\ mem' = [mem EXCEPT ![p] = Ended(@)]
    /\ UNCHANGED <<scanVars, drawVars, confVars, fileVars, envVars, runs, hist>>

\* The row the loop is about to append, when it is about to append one.
RowDue(p) ==
    IF script = "bybit"
    THEN BybitDue(p) /\ ~FloatsRaise(mem[p].work[mem[p].i])
    ELSE /\ BtcDue(p)
         /\ Resolvable(mkt[journal.lines[mem[p].i].market_id])
         /\ NonNumeric \notin {journal.lines[mem[p].i].price, journal.lines[mem[p].i].shares}

NextRow(p) ==
    IF script = "bybit"
    THEN BybitRow(mem[p].feed, mem[p].work[mem[p].i],
                  BybitEval(mem[p].feed, mem[p].work[mem[p].i], now).outcome)
    ELSE LET r == journal.lines[mem[p].i]
         IN  BtcRow(r, mkt[r.market_id], FillModel(mem[p].seed, BtcKey(r), r.edge, r.conf))

\* The process is killed inside append_out / append_result, between the
\* write of the JSONL line and the write of the CSV row.
KillInAppend(p) ==
    /\ RowDue(p)
    /\ AppendJsonl(NextRow(p))
    /\ pc' = [pc EXCEPT ![p] = "idle"]
    /\ rc' = [rc EXCEPT ![p] = "killed"]
    /\ mem' = [mem EXCEPT ![p] = Ended(@)]
    /\ UNCHANGED <<scanVars, drawVars, confVars, journal, stateFile, csvFile, envVars, runs, hist>>

-----------------------------------------------------------------------------
(* The draw specification: the fill model of lines 190-202, evaluated in   *)
(* invocations with their own hash seeds.                                  *)

MaxDraws == 2

\* edge and conf: negative, zero (or missing), inside the ramps, past their
\* ends, and very large.
DrawInputs ==
    {[key |-> <<"m1", t>>, edge |-> e, conf |-> c] :
        t \in {1, 2}, e \in {-1000, 0, 500, 900, 1000000}, c \in {-1000, 0, 7000, 9000, 1000000}}

DrawStep ==
    /\ Cardinality(draws) < MaxDraws
    /\ \E in \in DrawInputs, seed \in HashSeeds :
          draws' = draws \cup {[seed |-> seed, fm |-> FillModel(seed, in.key, in.edge, in.conf)]}
    /\ UNCHANGED <<scanVars, pnl, kl, runVars>>

DrawInit ==
    /\ draws = {}
    /\ pnl = <<>>
    /\ kl = <<>>
    /\ scanPc = "off" /\ scanIn = <<>> /\ scanOut = <<>>
    /\ RunOff

SpecDraw == DrawInit /\ [][DrawStep]_vars

-----------------------------------------------------------------------------
(* The pnl specification: one call of paper_pnl (lines 84-107) on inputs   *)
(* drawn at the start.                                                     *)

PnlInputs ==
    [side : {"YES", "NO"}, price : 0 .. 10, shares : {0, 5, 10},
     outcome_up : BOOLEAN, fee_rate_bps : {0, 200}]

PnlInit ==
    /\ pnl \in {[pc |-> "call", in |-> in, out |-> <<>>] : in \in PnlInputs}
    /\ kl = <<>>
    /\ draws = {}
    /\ scanPc = "off" /\ scanIn = <<>> /\ scanOut = <<>>
    /\ RunOff

PnlStep ==
    /\ pnl.pc = "call"
    /\ pnl' = [pnl EXCEPT !.pc = "done",
                          !.out = paper_pnl(pnl.in.side, pnl.in.price, pnl.in.shares,
                                            pnl.in.outcome_up, pnl.in.fee_rate_bps)]
    /\ UNCHANGED <<scanVars, draws, kl, runVars>>

SpecPnl == PnlInit /\ [][PnlStep]_vars

-----------------------------------------------------------------------------
(* The window specification: the kline request of one signal               *)

\* Latest clock of a request.
MaxClock == 30

\* candle_ts of the signal (0: missing), the clock of the run (the Bar Source
\* has published bars 1 .. clock) and the configured lookahead.
KlInputs == [candle_ts : 0 .. 2, clock : 1 .. MaxClock, lookahead : {Lookahead, DefaultLookahead}]

KlInit ==
    /\ kl \in {[pc |-> "call", in |-> in, out |-> <<>>] : in \in KlInputs}
    /\ draws = {}
    /\ pnl = <<>>
    /\ scanPc = "off" /\ scanIn = <<>> /\ scanOut = <<>>
    /\ RunOff

\* Lines 134-145: the window, the request and the sorted rows.  Both scans
\* iterate over these rows; only the start times are kept here.
KlStep ==
    /\ kl.pc = "call"
    /\ LET sig_ms == WindowStart(kl.in.candle_ts, kl.in.clock, kl.in.lookahead)
           times == BarTimes(kl.in.clock, sig_ms, WindowEnd(sig_ms, kl.in.lookahead),
                             KlineLimit(kl.in.lookahead))
       IN  kl' = [kl EXCEPT !.pc = "done",
                            !.out = fetch_klines([i \in 1 .. Len(times) |->
                                                     Candle(times[i], Entry, Entry)])]
    /\ UNCHANGED <<scanVars, draws, pnl, runVars>>

SpecKlines == KlInit /\ [][KlStep]_vars

-----------------------------------------------------------------------------
(* The specification of the runs                                           *)

Init ==
    /\ scanPc = "off" /\ scanIn = <<>> /\ scanOut = <<>>
    /\ draws = {}
    /\ pnl = <<>>
    /\ kl = <<>>
    /\ RunInit

Next ==
    \/ AppendJournal
    \/ Tick
    \/ \E m \in MarketIds : Settle(m)
    \/ \E p \in Procs : BybitStart(p)
    \/ \E p \in Procs : BybitIter(p)
    \/ \E p \in Procs : BybitFetchRaises(p)
    \/ \E p \in Procs : BtcStart(p)
    \/ \E p \in Procs : BtcIter(p)
    \/ \E p \in Procs : BtcFetchFails(p)
    \/ \E p \in Procs : SaveOpen(p)
    \/ \E p \in Procs : SaveDump(p)
    \/ \E p \in Procs : Kill(p)
    \/ \E p \in Procs : KillInAppend(p)

Spec == Init /\ [][Next]_vars

-----------------------------------------------------------------------------
(* The inputs specification: the same runs started on input files of any   *)
(* content: journals with lines that are not JSON, rows of other kinds and *)
(* values float() rejects; a state file of the wrong shape.                *)

\* One bar history: every bar trades the entry and the upper threshold.
SteadyMarket ==
    [f \in Feeds |->
        IF f = DefaultFeed THEN [t \in 1 .. MaxHist |-> CHOOSE b \in RunBars : b.hi = 3 /\ b.lo = 2]
        ELSE AltMarket]

InputsInit ==
    /\ scanPc = "off" /\ scanIn = <<>> /\ scanOut = <<>>
    /\ draws = {}
    /\ pnl = <<>>
    /\ kl = <<>>
    /\ script \in {"bybit", "btc"}
    /\ apiKey \in IF script = "btc" THEN BOOLEAN ELSE {FALSE}
    /\ journal \in {[exists |-> TRUE, lines |-> l] :
                        l \in SeqsUpTo(IF script = "bybit" THEN SignalLines ELSE IntentLines,
                                       MaxJournal)}
                   \cup {[exists |-> FALSE, lines |-> <<>>]}
    /\ stateFile \in {NoFile, WrongShape}
    /\ results = <<>>
    /\ csvFile = NoCsv
    /\ market = IF script = "bybit" THEN SteadyMarket ELSE <<>>
    /\ now = 1
    /\ mkt = [m \in MarketIds |-> CHOOSE ms \in MarketStates : ms.status = "active"]
    /\ pc = [p \in Procs |-> IF p = 1 THEN "idle" ELSE "off"]
    /\ mem = [p \in Procs |-> Fresh]
    /\ rc = [p \in Procs |-> "none"]
    /\ runs = 0
    /\ hist = [keys |-> {}, intact |-> FALSE]

SpecInputs == InputsInit /\ [][Next]_vars

-----------------------------------------------------------------------------
(* The feeds specification: bybit_sr_resolve on a journal whose signals     *)
(* name different symbols and intervals.  Runs are sequential and          *)
(* complete; the clock stands still.  Timestamps are bar indices of the    *)
(* feed the run fetches.                                                   *)

FeedsInit ==
    /\ scanPc = "off" /\ scanIn = <<>> /\ scanOut = <<>>
    /\ draws = {}
    /\ pnl = <<>>
    /\ kl = <<>>
    /\ script = "bybit"
    /\ apiKey = FALSE
    /\ journal = [exists |-> TRUE, lines |-> <<>>]
    /\ stateFile = NoFile
    /\ results = <<>>
    /\ csvFile = NoCsv
    /\ market \in {[f \in Feeds |-> IF f = DefaultFeed THEN h ELSE AltMarket] :
                      h \in [1 .. MaxHist -> RunBars]}
    /\ now \in 1 .. MaxHist
    /\ mkt = [m \in MarketIds |-> CHOOSE ms \in MarketStates : ms.status = "active"]
    /\ pc = [p \in Procs |-> IF p = 1 THEN "idle" ELSE "off"]
    /\ mem = [p \in Procs |-> Fresh]
    /\ rc = [p \in Procs |-> "none"]
    /\ runs = 0
    /\ hist = [keys |-> {}, intact |-> FALSE]

\* The signal script appends a signal for either feed between two runs.
AppendFeedSignal ==
    /\ Idle
    /\ Len(journal.lines) < MaxJournal
    /\ \E line \in {s \in Signals \cup AltSignals : s.candle_ts <= now} :
          journal' = [exists |-> TRUE, lines |-> Append(journal.lines, line)]
    /\ UNCHANGED <<scanVars, drawVars, confVars, stateFile, results, csvFile, envVars, procVars>>

NextFeeds ==
    \/ AppendFeedSignal
    \/ \E p \in Procs : BybitStart(p)
    \/ \E p \in Procs : BybitIter(p)
    \/ \E p \in Procs : SaveOpen(p)
    \/ \E p \in Procs : SaveDump(p)

SpecFeeds == FeedsInit /\ [][NextFeeds]_vars

-----------------------------------------------------------------------------
(* The long-journal specification: bybit_sr_resolve on a journal that       *)
(* reaches and passes the 200 signals of signals[-200:].  Runs are          *)
(* sequential and complete; the clock stands still.                        *)

\* Most signals the journal holds beyond the window.
MaxOver == 1

\* The i-th signal of the journal: sides alternate, each with its stop below
\* (LONG) or above (SHORT) the entry.
SignalAt(i) ==
    IF i % 2 = 1 THEN SignalLine("signal", i, "LONG", Entry, 1, 3, 1)
    ELSE SignalLine("signal", i, "SHORT", Entry, 3, 1, 1)

LongInit ==
    /\ scanPc = "off" /\ scanIn = <<>> /\ scanOut = <<>>
    /\ draws = {}
    /\ pnl = <<>>
    /\ kl = <<>>
    /\ script = "bybit"
    /\ apiKey = FALSE
    /\ journal \in {[exists |-> TRUE, lines |-> [i \in 1 .. n |-> SignalAt(i)]] :
                        n \in {SignalWindow - 1, SignalWindow}}
    /\ stateFile = NoFile
    /\ results = <<>>
    /\ csvFile = NoCsv
    /\ market = SteadyMarket
    /\ now = 1
    /\ mkt = [m \in MarketIds |-> CHOOSE ms \in MarketStates : ms.status = "active"]
    /\ pc = [p \in Procs |-> IF p = 1 THEN "idle" ELSE "off"]
    /\ mem = [p \in Procs |-> Fresh]
    /\ rc = [p \in Procs |-> "none"]
    /\ runs = 0
    /\ hist = [keys |-> {}, intact |-> FALSE]

\* The signal script appends the next signal between two runs.
AppendNextSignal ==
    /\ Idle
    /\ Len(journal.lines) < SignalWindow + MaxOver
    /\ journal' = [exists |-> TRUE,
                   lines |-> Append(journal.lines, SignalAt(Len(journal.lines) + 1))]
    /\ UNCHANGED <<scanVars, drawVars, confVars, stateFile, results, csvFile, envVars, procVars>>

NextLong ==
    \/ AppendNextSignal
    \/ \E p \in Procs : BybitStart(p)
    \/ \E p \in Procs : BybitIter(p)
    \/ \E p \in Procs : SaveOpen(p)
    \/ \E p \in Procs : SaveDump(p)

SpecLong == LongInit /\ [][NextLong]_vars

-----------------------------------------------------------------------------
(* The liveness specification: btc15m_arb_resolve run again and again on a  *)
(* journal of any lines, with SIMMER_API_KEY set.  No process is killed,    *)
(* the state file is never removed, every market settles with an outcome   *)
(* and the fetch of every journal line succeeds again and again.           *)

\* The runs stop when the result log holds this many rows: more rows than
\* the journal has lines.
MaxRows == 4

LiveInit ==
    /\ scanPc = "off" /\ scanIn = <<>> /\ scanOut = <<>>
    /\ draws = {}
    /\ pnl = <<>>
    /\ kl = <<>>
    /\ script = "btc"
    /\ apiKey = TRUE
    /\ journal \in {[exists |-> TRUE, lines |-> l] : l \in SeqsUpTo(IntentLines, MaxJournal)}
    /\ stateFile = NoFile
    /\ results = <<>>
    /\ csvFile = NoCsv
    /\ market = <<>>
    /\ now = 1
    /\ mkt = [m \in MarketIds |-> CHOOSE ms \in MarketStates : ms.status = "active"]
    /\ pc = [p \in Procs |-> IF p = 1 THEN "idle" ELSE "off"]
    /\ mem = [p \in Procs |-> Fresh]
    /\ rc = [p \in Procs |-> "none"]
    /\ runs = 0
    /\ hist = [keys |-> {}, intact |-> FALSE]

\* The scheduler starts the resolver once more.
LiveStart(p) ==
    /\ Len(results) < MaxRows
    /\ BtcStart(p)

\* Invocations are counted up to MaxRuns; the count starts over.
RunAgain ==
    /\ Idle
    /\ runs = MaxRuns
    /\ runs' = 0
    /\ UNCHANGED <<scanVars, drawVars, confVars, fileVars, envVars, pc, mem, rc, hist>>

NextLive ==
    \/ \E m \in MarketIds : Settle(m)
    \/ \E p \in Procs : LiveStart(p)
    \/ \E p \in Procs : BtcIter(p)
    \/ \E p \in Procs : BtcFetchFails(p)
    \/ \E p \in Procs : SaveOpen(p)
    \/ \E p \in Procs : SaveDump(p)
    \/ RunAgain

\* The resolver is run repeatedly and each run goes on to its end; every
\* market settles; at every journal line the fetch succeeds in some run
\* whenever that line is reached again and again.
LiveFairness ==
    /\ \A m \in MarketIds : WF_vars(Settle(m))
    /\ WF_vars(RunAgain)
    /\ \A p \in Procs :
          /\ WF_vars(LiveStart(p))
          /\ WF_vars(BtcIter(p) \/ BtcFetchFails(p))
          /\ WF_vars(SaveOpen(p))
          /\ WF_vars(SaveDump(p))
          /\ \A k \in 1 .. MaxJournal : SF_vars(mem[p].i = k /\ BtcIter(p))

SpecLive == LiveInit /\ [][NextLive]_vars /\ LiveFairness

-----------------------------------------------------------------------------
(* The overlap specification: two invocations of the same resolver, started *)
(* without mutual exclusion on the same files.  No process is killed and   *)
(* no bar is published while they run.                                     *)

OverlapInit ==
    /\ scanPc = "off" /\ scanIn = <<>> /\ scanOut = <<>>
    /\ draws = {}
    /\ pnl = <<>>
    /\ kl = <<>>
    /\ script \in {"bybit", "btc"}
    /\ apiKey = (script = "btc")
    /\ journal = [exists |-> TRUE, lines |-> <<>>]
    /\ stateFile = NoFile
    /\ results = <<>>
    /\ csvFile = NoCsv
    /\ market = IF script = "bybit" THEN SteadyMarket ELSE <<>>
    /\ now = 1
    /\ mkt = [m \in MarketIds |-> CHOOSE ms \in MarketStates : ms.status = "active"]
    /\ pc = [p \in Procs |-> "idle"]
    /\ mem = [p \in Procs |-> Fresh]
    /\ rc = [p \in Procs |-> "none"]
    /\ runs = 0
    /\ hist = [keys |-> {}, intact |-> FALSE]

NextOverlap ==
    \/ AppendJournal
    \/ \E m \in MarketIds : Settle(m)
    \/ \E p \in Procs : BybitStart(p)
    \/ \E p \in Procs : BybitIter(p)
    \/ \E p \in Procs : BybitFetchRaises(p)
    \/ \E p \in Procs : BtcStart(p)
    \/ \E p \in Procs : BtcIter(p)
    \/ \E p \in Procs : BtcFetchFails(p)
    \/ \E p \in Procs : SaveOpen(p)
    \/ \E p \in Procs : SaveDump(p)

SpecOverlap == OverlapInit /\ [][NextOverlap]_vars

-----------------------------------------------------------------------------
(* The scan specification: one fetch result, one intent, one evaluation.   *)

NoEval == [candles |-> <<>>, filled_idx |-> NoFill, outcome |-> "unfilled"]

ScanInputs ==
    {[side |-> sd, entry |-> Entry, sl |-> IF sd = "LONG" THEN 1 ELSE 3,
      tp |-> IF sd = "LONG" THEN 3 ELSE 1, bars |-> b, order |-> "none"] :
        sd \in Sides, b \in SeqsUpTo(HiLo, MaxBars)}

\* The rows of the window in timestamp order.
Window(in) == [i \in 1 .. Len(in.bars) |-> Candle(i, in.bars[i].hi, in.bars[i].lo)]

ScanInit ==
    /\ scanPc = "input"
    /\ scanIn \in ScanInputs
    /\ scanOut = NoEval
    /\ draws = {}
    /\ pnl = <<>>
    /\ kl = <<>>
    /\ RunOff

\* The Bar Source answers in some order; lines 142-176 run on the answer.
ScanStep ==
    /\ scanPc = "input"
    /\ \E lst \in Perms(Window(scanIn)) :
          /\ scanIn' = [scanIn EXCEPT !.order = OrderOf(lst)]
          /\ scanOut' = Evaluate(lst, scanIn.side, scanIn.entry, scanIn.sl, scanIn.tp)
    /\ scanPc' = "done"
    /\ UNCHANGED <<drawVars, runVars>>

ScanNext == ScanStep

SpecScan == ScanInit /\ [][ScanNext]_vars

-----------------------------------------------------------------------------
(* Claims about the scans, stated on the window in timestamp order and     *)
(* without the code's loops.                                               *)

Touches(c, entry) == c.lo <= entry /\ entry <= c.hi

RefStop(side, c, sl) ==
    \/ side = "LONG" /\ c.lo <= sl
    \/ side = "SHORT" /\ c.hi >= sl

RefTarget(side, c, tp) ==
    \/ side = "LONG" /\ c.hi >= tp
    \/ side = "SHORT" /\ c.lo <= tp

MinOf(S) == CHOOSE i \in S : \A k \in S : i <= k

\* Bars of the window that touch the entry; the reference fill index.
ScanTouch == {i \in 1 .. Len(scanIn.bars) : Touches(Window(scanIn)[i], scanIn.entry)}

ScanFill == IF ScanTouch = {} THEN NoFill ELSE MinOf(ScanTouch)

\* Bars at or after the reference fill bar in which the stop or the target
\* test holds; the first of them.
ScanHits ==
    {j \in 1 .. Len(scanIn.bars) :
        /\ ScanFill # NoFill
        /\ j >= ScanFill
        /\ \/ RefStop(scanIn.side, Window(scanIn)[j], scanIn.sl)
           \/ RefTarget(scanIn.side, Window(scanIn)[j], scanIn.tp)}

ScanFirstHit == Window(scanIn)[MinOf(ScanHits)]

\* C5: tie-break.  For either side, when the first bar at or after the fill
\* bar in which the stop or the target is hit has both hit, the outcome is
\* loss.
C5_TieBreakIsLoss ==
    (/\ scanPc = "done"
     /\ ScanHits # {}
     /\ RefStop(scanIn.side, ScanFirstHit, scanIn.sl)
     /\ RefTarget(scanIn.side, ScanFirstHit, scanIn.tp))
        => scanOut.outcome = "loss"

\* C5 witness: LONG, stop below and target above the entry, one bar that
\* breaches both (the spec's example), resolved as a loss.
C5_Witness ==
    /\ scanPc = "done"
    /\ scanIn.side = "LONG" /\ scanIn.sl < scanIn.entry /\ scanIn.tp > scanIn.entry
    /\ Len(scanIn.bars) = 1
    /\ scanIn.bars[1].lo < scanIn.sl /\ scanIn.bars[1].hi > scanIn.tp
    /\ scanOut.outcome = "loss"

\* C6: race order.  For a filled intent the first bar j >= fill index (the
\* fill bar included) in which the stop or the target test holds decides:
\* stop only gives loss, target only gives win, whatever the bars after j
\* and the bars before the fill bar hold.
C6_RaceOrder ==
    (scanPc = "done" /\ ScanHits # {}) =>
        /\ (/\ RefStop(scanIn.side, ScanFirstHit, scanIn.sl)
            /\ ~RefTarget(scanIn.side, ScanFirstHit, scanIn.tp))
              => scanOut.outcome = "loss"
        /\ (/\ RefTarget(scanIn.side, ScanFirstHit, scanIn.tp)
            /\ ~RefStop(scanIn.side, ScanFirstHit, scanIn.sl))
              => scanOut.outcome = "win"

\* C6 witness: SHORT, a bar before the fill bar that hits the target, the
\* fill bar hits the stop only, a later bar hits the target only: loss.
C6_Witness ==
    /\ scanPc = "done"
    /\ scanIn.side = "SHORT"
    /\ Len(scanIn.bars) = 3
    /\ ScanFill = 2
    /\ RefTarget("SHORT", Window(scanIn)[1], scanIn.tp)
    /\ ScanHits # {}
    /\ MinOf(ScanHits) = 2
    /\ RefStop("SHORT", Window(scanIn)[2], scanIn.sl)
    /\ ~RefTarget("SHORT", Window(scanIn)[2], scanIn.tp)
    /\ RefTarget("SHORT", Window(scanIn)[3], scanIn.tp)
    /\ ~RefStop("SHORT", Window(scanIn)[3], scanIn.sl)
    /\ scanOut.outcome = "loss"

\* C7: fill detection.  The intent is filled iff some bar of its window has
\* low <= entry <= high (both inclusive); the fill index is the earliest
\* such bar in ascending timestamp order, in whatever order the Bar Source
\* returned the bars; an empty window gives unfilled.
C7_FillDetection ==
    scanPc = "done" =>
        /\ (scanOut.filled_idx # NoFill) <=> (ScanTouch # {})
        /\ scanOut.filled_idx = ScanFill
        /\ scanOut.candles = Window(scanIn)
        /\ scanIn.bars = <<>> => (scanOut.filled_idx = NoFill /\ scanOut.outcome = "unfilled")

\* C7 witness: the source answered newest first, the second bar in time is
\* the first to touch, and it touches with entry = high.
C7_Witness ==
    /\ scanPc = "done"
    /\ scanIn.order = "descending"
    /\ Len(scanIn.bars) = 3
    /\ scanOut.filled_idx = 2
    /\ scanIn.bars[2].hi = scanIn.entry
    /\ Touches(Window(scanIn)[3], scanIn.entry)

-----------------------------------------------------------------------------
(* Claims about the runs                                                   *)

Running(p) == pc[p] \in {"loop", "dump"}

RowsOf(key) == {i \in 1 .. Len(results) : RowKey(results[i]) = key}

\* C1: idempotence of completed runs.  A run that starts from the state
\* file a completed run wrote records nothing for a key that run recorded,
\* whether the journal and the bars are the same or have grown.
C1_NoReResolve == \A p \in Procs : mem[p].newKeys \cap mem[p].prevKeys = {}

\* C1 witness: btc15m_arb_resolve, second run, started from the state file
\* of a run that recorded a key; its loop is over, it went past that key's
\* journal line and recorded a later line's key.
C1_Witness ==
    /\ script = "btc"
    /\ pc[1] = "dump"
    /\ mem[1].prevKeys # {}
    /\ mem[1].prevKeys \subseteq mem[1].resolved
    /\ mem[1].newKeys # {}
    /\ \A k \in mem[1].prevKeys : Cardinality(RowsOf(k)) = 1

\* The last evaluated signal was filled, and no bar from the fill bar on
\* hits its stop or its target.
Pending(l) ==
    /\ l.valid
    /\ l.ev.filled_idx # NoFill
    /\ \A j \in l.ev.filled_idx .. Len(l.ev.candles) :
          /\ ~RefStop(l.s.side, l.ev.candles[j], l.s.sl)
          /\ ~RefTarget(l.s.side, l.ev.candles[j], l.s.tp)

\* C2: pending is never persisted.  A signal that bybit_sr_resolve.main
\* finds filled, with no stop and no target hit in the bars available, gets
\* no row in the result log and no key in the store in that run.
C2_PendingNotPersisted ==
    script = "bybit" =>
        \A p \in Procs :
            (Running(p) /\ Pending(mem[p].last)) =>
                /\ RowsOf(BybitKey(mem[p].last.s)) = {}
                /\ BybitKey(mem[p].last.s) \notin mem[p].resolved

\* C3: at most one Resolution Record per intent key in every reachable
\* state of the result log, runs that end abnormally included.
C3_OneRecordPerKey ==
    \A i, j \in 1 .. Len(results) : RowKey(results[i]) = RowKey(results[j]) => i = j

\* C4: the persisted store grows monotonically.  When a run has ended, every
\* key the state file held when the run started is in the state file.
C4_StoreMonotonic ==
    \A p \in Procs : pc[p] = "idle" => mem[p].startKeys \subseteq FileKeys(stateFile)

\* C8: bybit_sr_resolve.main writes outcome 'unfilled' only for a signal no
\* bar of whose window has low <= entry <= high.
C8_UnfilledOnlyWhenUntouched ==
    script = "bybit" =>
        \A p \in Procs :
            (Running(p) /\ mem[p].last.valid /\ mem[p].last.wrote
                /\ mem[p].last.ev.outcome = "unfilled") =>
                    \A i \in 1 .. Len(mem[p].last.ev.candles) :
                        ~Touches(mem[p].last.ev.candles[i], mem[p].last.s.entry)

\* C9: deterministic resolution.  The outcome recorded for a signal is the
\* outcome a run at any other time of the same bar history records for it.
C9_OutcomeIndependentOfRunTime ==
    script = "bybit" =>
        \A i \in 1 .. Len(results), k \in 1 .. Len(journal.lines), t \in 1 .. MaxHist :
            BybitKey(journal.lines[k]) = RowKey(results[i]) =>
                results[i].outcome =
                    BybitEval([symbol |-> results[i].symbol, interval |-> results[i].interval],
                              journal.lines[k], t).outcome

\* C10: deterministic fill draw.  Two evaluations of the fill model for the
\* same key, edge and conf, in the same or in two invocations, give the same
\* p_fill, the same u and the same filled.
C10_SameDraw ==
    \A d1, d2 \in draws :
        (d1.fm.key = d2.fm.key /\ d1.fm.edge = d2.fm.edge /\ d1.fm.conf = d2.fm.conf) =>
            /\ d1.fm.p_fill = d2.fm.p_fill
            /\ d1.fm.u = d2.fm.u
            /\ d1.fm.filled = d2.fm.filled

\* C11: a failed Bar Source / market fetch for one intent does not abort
\* the run: no invocation ends on the exception the fetch raised.
C11_FetchFailureDoesNotAbort == \A p \in Procs : mem[p].exc # "URLError"

\* The journal lines a resolver has to process: JSON, of the relevant kind.
Relevant(l) ==
    /\ l.json
    /\ IF script = "bybit" THEN l.type = "signal" ELSE l.action \in IntentActions

\* C12: the journal reader skips a line that is not JSON and a line of an
\* irrelevant kind without failing the run, and the relevant lines before
\* and after it are still processed.
C12_BadLinesSkipped ==
    /\ \A p \in Procs : mem[p].exc # "JSONDecodeError"
    /\ script = "bybit" =>
          \A p \in Procs :
              Running(p) =>
                  \A k \in 1 .. Len(journal.lines) :
                      Relevant(journal.lines[k]) =>
                          \E j \in 1 .. Len(mem[p].work) : mem[p].work[j] = journal.lines[k]

\* C13: no exception ends a run; the only non-zero exit is 2, for a missing
\* SIMMER_API_KEY, before any state is read or written.
C13_OnlyConfigErrorsEndARun ==
    \A p \in Procs :
        /\ rc[p] \in {"none", "0", "2", "killed"}
        /\ rc[p] = "2" =>
              /\ script = "btc" /\ ~apiKey
              /\ results = <<>> /\ ~csvFile.exists
              /\ stateFile \in {NoFile, WrongShape}
        /\ (script = "btc" /\ ~apiKey) => rc[p] \in {"none", "2"}

\* C14: a termination during save_state does not corrupt what was
\* persisted: after a kill the state file still loads to a store with every
\* key it held before that run.
C14_KilledSaveKeepsStore ==
    \A p \in Procs : rc[p] = "killed" => mem[p].startKeys \subseteq load_state(stateFile)

\* C15: the load-mutate-save cycle is not atomic across a run.  An
\* invocation works on the store it loaded plus what it recorded itself and
\* never re-reads the file, so what it saves is blind to what another
\* invocation persisted meanwhile; and a key that two running invocations
\* have both recorded has two Resolution Records.
C15_LoadMutateSaveNotAtomic ==
    /\ \A p \in Procs :
          Running(p) => mem[p].resolved = mem[p].startKeys \cup mem[p].newKeys
    /\ \A p, q \in Procs :
          (p # q /\ Running(p) /\ Running(q)) =>
              \A k \in mem[p].newKeys \cap mem[q].newKeys : Cardinality(RowsOf(k)) >= 2

\* C15 witness: two invocations, each run once and ended with 0, have
\* overlapped; one intent key has two Resolution Records, and the state file
\* written last lacks the key of a record that the other invocation had
\* persisted.
C15_Witness ==
    /\ runs = 2
    /\ \A p \in Procs : pc[p] = "idle" /\ rc[p] = "0"
    /\ stateFile.status = "ok"
    /\ \E i, j \in 1 .. Len(results) : i # j /\ RowKey(results[i]) = RowKey(results[j])
    /\ \E i \in 1 .. Len(results) : RowKey(results[i]) \notin FileKeys(stateFile)

\* C16: a state file that is missing, unreadable, not JSON or JSON of the
\* wrong shape makes the run start from the empty store and go on: no run
\* ends on the exception the load raised.
C16_LoadFailureFallsBack ==
    \A p \in Procs :
        /\ mem[p].exc # "AttributeError"
        /\ (pc[p] = "loop" /\ stateFile.status # "ok" /\ mem[p].newKeys = {}) =>
              mem[p].resolved = {}

\* C17: key construction in btc15m_arb_resolve.  The same intent (same
\* market_id and ts), once or twice in the journal, has at most one
\* Resolution Record over all runs; an intent processed on a settled market
\* has exactly one, whatever other intents of that market have.
C17_OneRecordPerIntent ==
    script = "btc" =>
        /\ \A k \in 1 .. Len(journal.lines) :
              Cardinality(RowsOf(BtcKey(journal.lines[k]))) <= 1
        /\ \A p \in Procs :
              (Running(p) /\ mem[p].last.valid) =>
                  Cardinality(RowsOf(BtcKey(mem[p].last.s))) = 1

\* C19: result log and tabular export stay in lockstep: after a completed
\* run the JSONL has as many records as the CSV has data rows, and the i-th
\* of each carry the same intent.
C19_LogAndCsvInLockstep ==
    (\A p \in Procs : pc[p] \in {"idle", "off"}) /\ (\E p \in Procs : rc[p] = "0") =>
        /\ Len(results) = Len(csvFile.rows)
        /\ \A i \in 1 .. Len(results) :
              i <= Len(csvFile.rows) => RowKey(results[i]) = RowKey(csvFile.rows[i])

\* An invocation of either resolver starts and finds no journal.
StartsWithoutJournal(p) == (BybitStart(p) \/ BtcStart(p)) /\ ~journal.exists

-----------------------------------------------------------------------------
(* Claims about paper_pnl                                                  *)

\* The wanted result, in the units of paper_pnl: money in 0.00001, price in
\* tenths.
Money(tenths) == tenths * 10000

RefWin(in) ==
    \/ in.side = "YES" /\ in.outcome_up
    \/ in.side = "NO" /\ ~in.outcome_up

RefNotional(in) == Money(in.shares * in.price)

RefFee(in) == (RefNotional(in) * in.fee_rate_bps) \div 10000

RefGross(in) ==
    IF RefWin(in) THEN Money(in.shares * 10) - Money(in.shares * in.price)
    ELSE 0 - Money(in.shares * in.price)

\* C18: paper_pnl equals the reference model for either side, every price,
\* shares, outcome and fee rate: notional, fee, win, gross and net; YES at
\* 0.4 with 10 shares and no fee gives 6.0 and a win when up, -4.0 and no
\* win when down.
C18_PaperPnlMatchesReference ==
    pnl # <<>> /\ pnl.pc = "done" =>
        /\ pnl.out.notional = RefNotional(pnl.in)
        /\ pnl.out.fee = RefFee(pnl.in)
        /\ pnl.out.win = (IF RefWin(pnl.in) THEN 1 ELSE 0)
        /\ pnl.out.pnl_gross = RefGross(pnl.in)
        /\ pnl.out.pnl_net = RefGross(pnl.in) - RefFee(pnl.in)
        /\ (pnl.in.side = "YES" /\ pnl.in.price = 4 /\ pnl.in.shares = 10
                /\ pnl.in.fee_rate_bps = 0) =>
              IF pnl.in.outcome_up
              THEN pnl.out.pnl_gross = Money(60) /\ pnl.out.pnl_net = Money(60)
                   /\ pnl.out.win = 1
              ELSE pnl.out.pnl_gross = 0 - Money(40) /\ pnl.out.pnl_net = 0 - Money(40)
                   /\ pnl.out.win = 0

\* C18 witness: a NO position that wins because the market went down, with
\* a fee charged.
C18_Witness ==
    /\ pnl # <<>>
    /\ pnl.pc = "done"
    /\ pnl.in.side = "NO"
    /\ ~pnl.in.outcome_up
    /\ pnl.out.win = 1
    /\ pnl.out.fee > 0
    /\ pnl.out.pnl_net < pnl.out.pnl_gross

-----------------------------------------------------------------------------
(* Claims about the Result Writer                                          *)

IsPrefix(a, b) == Len(a) <= Len(b) /\ SubSeq(b, 1, Len(a)) = a

\* C21: the Result Writer is append-only.  In every step the result log and
\* the rows of the export keep what they held, in the same order, and gain
\* at most one row; an invocation that goes on running has appended exactly
\* one row for each key it newly resolved in the step, and that row is the
\* row of this key.
C21_AppendOnly ==
    [][/\ IsPrefix(results, results') /\ Len(results') <= Len(results) + 1
       /\ IsPrefix(csvFile.rows, csvFile'.rows) /\ Len(csvFile'.rows) <= Len(csvFile.rows) + 1
       /\ \A p \in Procs :
             (Running(p) /\ pc'[p] \in {"loop", "dump"}) =>
                 /\ Len(results') - Len(results)
                        = Cardinality(mem'[p].newKeys \ mem[p].newKeys)
                 /\ \A k \in mem'[p].newKeys \ mem[p].newKeys :
                        RowKey(results'[Len(results')]) = k]_vars

\* C21 witness: a second run has appended a row behind the row of a first
\* run.
C21_Witness ==
    /\ runs = 2
    /\ Len(results) = 2
    /\ pc[1] = "loop"
    /\ Cardinality(mem[1].newKeys) = 1
    /\ RowKey(results[1]) \in mem[1].startKeys
    /\ RowKey(results[2]) \in mem[1].newKeys

C24_PFillClamped ==
    \A d \in draws :
        /\ 2000 <= d.fm.p_fill /\ d.fm.p_fill <= 60000
        /\ d.fm.filled <=> (10 * d.fm.u < d.fm.p_fill)

C24_Witness ==
    \E d1, d2 \in draws :
        /\ d1.fm.edge = 1000000 /\ d1.fm.conf = 1000000 /\ d1.fm.p_fill = 60000 /\ d1.fm.filled
        /\ d2.fm.edge < 0 /\ d2.fm.conf < 0 /\ d2.fm.p_fill = 5000 /\ ~d2.fm.filled

\* Every key of the state file has a record in the result log.
StoreWithinLog == \A k \in FileKeys(stateFile) : RowsOf(k) # {}

\* C25: btc15m_arb_resolve leaves an intent pending when the market fetch
\* fails, the status is not a settled one or no outcome can be derived: the
\* loop passes the line without a record and without adding the key, so the
\* key never reaches the state file before a record exists and a later run
\* finds the intent due again.
C25_PendingIntentStaysDue ==
    [][script = "btc" =>
          /\ StoreWithinLog /\ StoreWithinLog'
          /\ \A p \in Procs :
                (/\ BtcDue(p)
                 /\ mem'[p].i = mem[p].i + 1
                 /\ \/ ~Resolvable(mkt[journal.lines[mem[p].i].market_id])
                    \/ results' = results) =>
                    /\ results' = results
                    /\ csvFile' = csvFile
                    /\ stateFile' = stateFile
                    /\ BtcKey(journal.lines[mem[p].i]) \notin mem'[p].resolved]_vars

\* The first run recorded the second intent and saved, so it passed the
\* first intent without a record; the second run has found the first intent
\* due and passed it again.
C25_Witness ==
    /\ script = "btc"
    /\ runs = 2
    /\ pc[1] = "loop"
    /\ mem[1].i = 2
    /\ Len(journal.lines) = 2
    /\ journal.lines[1] \in Intents
    /\ BtcKey(journal.lines[2]) \in mem[1].startKeys
    /\ RowsOf(BtcKey(journal.lines[1])) = {}
    /\ BtcKey(journal.lines[1]) \notin mem[1].resolved

\* C30: an intent of btc15m_arb_resolve that the fill model leaves unfilled is
\* terminal.  Its record has filled = False and zero notional, fee,
\* pnl_gross, pnl_net and win; its key is added to the store; and a run that
\* starts from a store holding the key records nothing for it.
C30_UnfilledIsTerminal ==
    script = "btc" =>
        /\ \A i \in 1 .. Len(results) :
              ~results[i].filled =>
                  /\ results[i].notional = 0 /\ results[i].fee = 0
                  /\ results[i].pnl_gross = 0 /\ results[i].pnl_net = 0
                  /\ results[i].win = 0
        /\ \A p \in Procs :
              /\ (Running(p) /\ mem[p].last.valid /\ ~mem[p].last.ev.filled) =>
                    /\ BtcKey(mem[p].last.s) \in mem[p].resolved
                    /\ ~results[Len(results)].filled
                    /\ RowKey(results[Len(results)]) = BtcKey(mem[p].last.s)
              /\ mem[p].newKeys \cap mem[p].startKeys = {}

\* The second run, under a hash seed whose draw would fill the intent, has
\* gone through the journal from a store that holds the key of an unfilled
\* record, and has recorded another intent.
C30_Witness ==
    /\ script = "btc"
    /\ runs = 2
    /\ pc[1] = "dump"
    /\ mem[1].seed = 1
    /\ mem[1].newKeys # {}
    /\ \E i \in 1 .. Len(results) :
          /\ ~results[i].filled
          /\ RowKey(results[i]) \in mem[1].startKeys
          /\ RowsOf(RowKey(results[i])) = {i}
          /\ FillModel(1, RowKey(results[i]), 500, 7000).filled

LogKeys == {RowKey(results[i]) : i \in 1 .. Len(results)}

\* C28: a run that starts with the keys of the state file equal to the keys
\* of the rows of the result log, and completes normally, saves a store
\* whose keys are the keys that have a row in the result log.
C28_SavedStoreMatchesLog ==
    [][\A p \in Procs :
          (/\ pc[p] = "dump" /\ pc'[p] = "idle" /\ rc'[p] = "0"
           /\ mem[p].startRows = mem[p].startKeys) =>
              FileKeys(stateFile') = LogKeys']_vars

\* The second run has completed: it started from a store with one key, the
\* saved store has that key and the key the run recorded, and each has its
\* one row.
C28_Witness ==
    /\ runs = 2
    /\ pc[1] = "idle" /\ rc[1] = "0"
    /\ mem[1].startKeys # {}
    /\ hist.intact /\ hist.keys # {}
    /\ Cardinality(FileKeys(stateFile)) = 2
    /\ FileKeys(stateFile) = LogKeys
    /\ \A k \in LogKeys : Cardinality(RowsOf(k)) = 1

\* Symbol and interval of the last signal of the journal.
LastFeed ==
    LET sig == SelectSeq(journal.lines, IsSignal)
    IN  [symbol |-> sig[Len(sig)].symbol, interval |-> sig[Len(sig)].interval]

\* C29: in one run of bybit_sr_resolve every signal is evaluated against the
\* bars of the symbol and interval of the last signal of the journal, and
\* its record carries that symbol and interval, whatever the signal itself
\* was journaled with.
C29_LastSignalNamesTheFeed ==
    \A p \in Procs :
        (script = "bybit" /\ Running(p)) =>
            /\ mem[p].feed = LastFeed
            /\ (mem[p].last.valid /\ mem[p].last.wrote) =>
                  /\ mem[p].last.ev = BybitEval(LastFeed, mem[p].last.s, now)
                  /\ RowKey(results[Len(results)]) = BybitKey(mem[p].last.s)
                  /\ results[Len(results)].symbol = LastFeed.symbol
                  /\ results[Len(results)].interval = LastFeed.interval
                  /\ results[Len(results)].outcome = BybitEval(LastFeed, mem[p].last.s, now).outcome

\* A run has recorded a signal journaled for the other feed: the record
\* names the feed of the last signal, and its outcome is the one the bars of
\* that feed give, not the one the signal's own feed gives.
C29_Witness ==
    /\ script = "bybit"
    /\ pc[1] = "loop"
    /\ mem[1].last.valid /\ mem[1].last.wrote
    /\ mem[1].last.s.symbol = AltFeed.symbol
    /\ LastFeed = DefaultFeed
    /\ results[Len(results)].symbol = DefaultFeed.symbol
    /\ results[Len(results)].interval = DefaultFeed.interval
    /\ results[Len(results)].outcome # BybitEval(AltFeed, mem[1].last.s, now).outcome

\* Line k of the journal is an intent with a market_id (lines 129-139).
IsIntent(k) ==
    /\ k <= Len(journal.lines)
    /\ journal.lines[k].json
    /\ journal.lines[k].action \in IntentActions
    /\ journal.lines[k].market_id # ""

\* C26: liveness of btc15m_arb_resolve.  When the resolver is run again and
\* again, the state file is never lost and the market fetch of an intent
\* eventually succeeds with a settled status and an outcome, the intent
\* eventually has exactly one record and its key in the state file.  (The
\* behaviours in which the result log fills up to MaxRows, where the runs of
\* this specification stop, are left aside.)
C26_EventuallyResolved ==
    \A k \in 1 .. MaxJournal :
        <>(\/ Len(results) >= MaxRows
           \/ IsIntent(k) =>
                 /\ Cardinality(RowsOf(BtcKey(journal.lines[k]))) = 1
                 /\ BtcKey(journal.lines[k]) \in FileKeys(stateFile))

-----------------------------------------------------------------------------
(* Claims about the window of bybit_sr_resolve                             *)

\* The keys of the journal's signals outside the last 200.
Outside ==
    LET sig == SelectSeq(journal.lines, IsSignal)
    IN  {BybitKey(sig[i]) : i \in 1 .. (Len(sig) - SignalWindow)}

C23_LookaheadBound ==
    kl # <<>> /\ kl.pc = "done" =>
        /\ Len(kl.out) <= kl.in.lookahead
        /\ kl.in.candle_ts > 0 => \A i \in 1 .. Len(kl.out) : kl.out[i].ts >= kl.in.candle_ts

====
